---- MODULE Spec2Model ----
(***************************************************************************)
(* A model of the three React hooks of the design editor:                  *)
(*   useHistory       (undo/redo over an array of canvas states),          *)
(*   useCanvasEvents  (selection listeners on a fabric canvas),            *)
(*   useAutosave      (debounced save of the project).                     *)
(* React state is modelled as React keeps it: a function of a render reads *)
(* the values of that render (its closure), a setter only queues the value *)
(* of the next render, and Render commits what was queued.                 *)
(***************************************************************************)
EXTENDS Integers, Sequences, FiniteSets, TLC

VARIABLES
    history,                 \* useHistory: `history` as the current render sees it
    currentIndex,            \* useHistory: `currentIndex` as the current render sees it
    nextHistory,             \* value queued by setHistory for the next render
    nextIndex,               \* value queued by setCurrentIndex for the next render
    ret,                     \* what the last pushState/undo/redo call returned
    lastOp,                  \* the last call made on the hook
    fresh,                   \* TRUE iff no call was made since the last render
    phase, pushed, k,        \* observer of the run "n pushes, n-1 undos, n-1 redos"
    mounted,                 \* useCanvasEvents is mounted
    canvas,                  \* prop canvas of the last render
    setSelectedObjects,      \* prop setSelectedObjects of the last render
    clearSelectionCallBack,  \* prop clearSelectionCallBack of the last render
    listeners,               \* fabric's listener lists: canvas -> event -> handlers
    calls,                   \* the callbacks the last fired event invoked, in order
    threw,                   \* the last fired event ended in an uncaught TypeError
    fired,                   \* the last fired event and the hook's props at that time
    asMounted,               \* useAutosave is mounted
    projectId,               \* argument projectId of the last render
    data,                    \* argument data of the last render
    timers,                  \* pending debounce timers
    elapsed,                 \* ms since (projectId, data) took its current value
    saved                    \* the last saveProject call and the hook's state then

histVars == <<history, currentIndex, nextHistory, nextIndex, ret, lastOp, fresh,
              phase, pushed, k>>
evVars   == <<mounted, canvas, setSelectedObjects, clearSelectionCallBack,
              listeners, calls, threw, fired>>
asVars   == <<asMounted, projectId, data, timers, elapsed, saved>>
vars     == <<histVars, evVars, asVars>>

\* ------------------------------------------------------------------ bounds
MaxHistory == 4
TickMs == 250

\* --------------------------------------------------------------- constants
DebounceMs == 1000

Undefined == "undefined"
Null == "null"

Min(a, b) == IF a < b THEN a ELSE b
Max(a, b) == IF a > b THEN a ELSE b

\* ================================================================ useHistory
CanvasState == {"s1", "s2"}

\* history[i] with JavaScript's 0-based index; out of range is undefined
At(h, i) == IF 0 <= i /\ i < Len(h) THEN h[i + 1] ELSE Undefined

\* Array.prototype.slice(0, end)
Slice0(h, end) ==
    LET e == IF end < 0 THEN Max(Len(h) + end, 0) ELSE Min(end, Len(h))
    IN  SubSeq(h, 1, e)

pushStateCapped(h, i, state) ==
    LET newHistory == Append(Slice0(h, i + 1), state)
        kept == IF Len(newHistory) > 2 THEN Tail(newHistory) ELSE newHistory
    IN  [history |-> kept, index |-> Len(kept) - 1]

\* the body of pushState: what it hands to setHistory and setCurrentIndex
pushStateResult(h, i, state) ==
    LET newHistory == Append(Slice0(h, i + 1), state)
    IN  [history |-> newHistory, index |-> Len(newHistory) - 1]

undoReturnsCurrent(h, i) ==
    IF i > 0
    THEN [set |-> TRUE, index |-> i - 1, ret |-> At(h, i)]
    ELSE [set |-> FALSE, index |-> i, ret |-> Undefined]

\* the body of undo: whether it calls setCurrentIndex, with what, and its result
undoResult(h, i) ==
    IF i > 0
    THEN [set |-> TRUE, index |-> i - 1, ret |-> At(h, i - 1)]
    ELSE [set |-> FALSE, index |-> i, ret |-> Undefined]

redoOffByOne(h, i) ==
    IF i < Len(h)
    THEN [set |-> TRUE, index |-> i + 1, ret |-> At(h, i + 1)]
    ELSE [set |-> FALSE, index |-> i, ret |-> Undefined]

\* the body of redo
redoResult(h, i) ==
    IF i < Len(h) - 1
    THEN [set |-> TRUE, index |-> i + 1, ret |-> At(h, i + 1)]
    ELSE [set |-> FALSE, index |-> i, ret |-> Undefined]

\* The observer: does the run so far consist of n pushState calls on the empty
\* history, then up to n - 1 undo calls, then up to n - 1 redo calls, each call
\* in its own render?
Off == phase' = "off" /\ pushed' = << >> /\ k' = 0

TrackPush(state) ==
    IF phase = "push" /\ fresh
    THEN phase' = "push" /\ pushed' = Append(pushed, state) /\ k' = 0
    ELSE Off

TrackUndo ==
    IF fresh /\ phase \in {"push", "undo"} /\ k < Len(pushed) - 1
    THEN phase' = "undo" /\ k' = k + 1 /\ pushed' = pushed
    ELSE Off

TrackRedo ==
    IF fresh /\ phase = "undo" /\ k = Len(pushed) - 1
    THEN phase' = "redo" /\ k' = 1 /\ pushed' = pushed
    ELSE IF fresh /\ phase = "redo" /\ k < Len(pushed) - 1
         THEN phase' = "redo" /\ k' = k + 1 /\ pushed' = pushed
         ELSE Off

pushState(state) ==
    LET r == pushStateResult(history, currentIndex, state)
    IN  /\ currentIndex + 2 <= MaxHistory
        /\ nextHistory' = r.history
        /\ nextIndex' = r.index
        /\ ret' = Undefined
        /\ lastOp' = "pushState"
        /\ fresh' = FALSE
        /\ TrackPush(state)
        /\ UNCHANGED <<history, currentIndex, evVars, asVars>>

undo ==
    LET r == undoResult(history, currentIndex)
    IN  /\ nextIndex' = IF r.set THEN r.index ELSE nextIndex
        /\ ret' = r.ret
        /\ lastOp' = "undo"
        /\ fresh' = FALSE
        /\ TrackUndo
        /\ UNCHANGED <<history, currentIndex, nextHistory, evVars, asVars>>

redo ==
    LET r == redoResult(history, currentIndex)
    IN  /\ nextIndex' = IF r.set THEN r.index ELSE nextIndex
        /\ ret' = r.ret
        /\ lastOp' = "redo"
        /\ fresh' = FALSE
        /\ TrackRedo
        /\ UNCHANGED <<history, currentIndex, nextHistory, evVars, asVars>>

\* React renders the component again with the queued values
Render ==
    /\ ~fresh
    /\ history' = nextHistory
    /\ currentIndex' = nextIndex
    /\ fresh' = TRUE
    /\ UNCHANGED <<nextHistory, nextIndex, ret, lastOp, phase, pushed, k, evVars, asVars>>

InitHistory ==
    /\ history = << >>
    /\ currentIndex = -1
    /\ nextHistory = << >>
    /\ nextIndex = -1
    /\ ret = Undefined
    /\ lastOp = "none"
    /\ fresh = TRUE
    /\ phase = "push"
    /\ pushed = << >>
    /\ k = 0

NextHistory ==
    \/ \E state \in CanvasState : pushState(state)
    \/ undo
    \/ redo
    \/ Render

\* =========================================================== useCanvasEvents
Canvases == {"c1", "c2"}
Setters == {"set1", "set2"}
Callbacks == {"cb1", "cb2"}
Events == {"selection:created", "selection:updated", "selection:cleared"}

\* JavaScript values: undefined, or an array of fabric objects
Undef == [type |-> "undefined", items |-> << >>]
Arr(items) == [type |-> "array", items |-> items]
Truthy(v) == v.type # "undefined"

\* the event objects fabric may pass: e.selected absent, or a list of objects
Payloads ==
    {[selected |-> Undef]} \cup
    {[selected |-> Arr(s)] : s \in {<< >>, <<"o1">>, <<"o1", "o2">>}}

\* one invocation of a callback prop, with its argument list
Call(fn, args) == [fn |-> fn, args |-> args]

\* e.selected || []   (an array, even an empty one, is truthy)
SelectedOrEmpty(e) == IF Truthy(e.selected) THEN e.selected ELSE Arr(<< >>)

\* the closures the effect registers; each captures the props of its render
Handler(body, set, clear) == [body |-> body, set |-> set, clear |-> clear]

selectionHandlerRaw(h, e) ==
    [calls |-> <<Call(h.set, <<e.selected>>)>>, threw |-> FALSE]

\* (e) => { setSelectedObjects(e.selected || []); }
selectionHandler(h, e) ==
    [calls |-> <<Call(h.set, <<SelectedOrEmpty(e)>>)>>, threw |-> FALSE]

clearedHandlerNoCheck(h) ==
    IF h.clear = Undefined
    THEN [calls |-> <<Call(h.set, <<Arr(<< >>)>>)>>, threw |-> TRUE]
    ELSE [calls |-> <<Call(h.set, <<Arr(<< >>)>>), Call(h.clear, << >>)>>, threw |-> FALSE]

\* () => { setSelectedObjects([]); clearSelectionCallBack?.(); }
clearedHandler(h) ==
    IF h.clear = Undefined
    THEN [calls |-> <<Call(h.set, <<Arr(<< >>)>>)>>, threw |-> FALSE]
    ELSE [calls |-> <<Call(h.set, <<Arr(<< >>)>>), Call(h.clear, << >>)>>, threw |-> FALSE]

RunHandler(h, e) ==
    IF h.body = "cleared" THEN clearedHandler(h) ELSE selectionHandler(h, e)

\* fabric's fire: every listener of the event runs in registration order; an
\* exception thrown by one ends the dispatch
RECURSIVE Dispatch(_, _)
Dispatch(hs, e) ==
    IF hs = << >>
    THEN [calls |-> << >>, threw |-> FALSE]
    ELSE LET r == RunHandler(Head(hs), e)
         IN  IF r.threw
             THEN r
             ELSE LET rest == Dispatch(Tail(hs), e)
                  IN  [calls |-> r.calls \o rest.calls, threw |-> rest.threw]

\* canvas.on(name, handler)
On(ls, c, name, h) == [ls EXCEPT ![c][name] = Append(@, h)]

\* canvas.off(name): without a handler fabric removes every listener of the event
OffAll(ls, c, name) == [ls EXCEPT ![c][name] = << >>]

\* the effect body (lines 15-26) for the props (c, set, clear)
effectSetup(ls, c, set, clear) ==
    IF c = Null
    THEN ls
    ELSE LET l1 == On(ls, c, "selection:created", Handler("selected", set, clear))
             l2 == On(l1, c, "selection:updated", Handler("selected", set, clear))
         IN  On(l2, c, "selection:cleared", Handler("cleared", set, clear))

effectCleanupForgetful(ls, c) ==
    IF c = Null
    THEN ls
    ELSE OffAll(OffAll(ls, c, "selection:created"), c, "selection:updated")

\* the effect's cleanup (lines 28-34); c is the canvas its closure captured
effectCleanup(ls, c) ==
    IF c = Null
    THEN ls
    ELSE OffAll(OffAll(OffAll(ls, c, "selection:created"), c, "selection:updated"),
                c, "selection:cleared")

NoListeners == [c \in Canvases |-> [name \in Events |-> << >>]]
NotFired == [name |-> "none", canvas |-> Null, e |-> [selected |-> Undef],
             active |-> FALSE, set |-> Undefined, clear |-> Undefined]

\* first render of a component using the hook; the effect runs after it
Mount(c, set, clear) ==
    /\ ~mounted
    /\ mounted' = TRUE
    /\ canvas' = c
    /\ setSelectedObjects' = set
    /\ clearSelectionCallBack' = clear
    /\ listeners' = effectSetup(listeners, c, set, clear)
    /\ UNCHANGED <<calls, threw, fired, histVars, asVars>>

\* a render with a changed dependency: React runs the previous effect's cleanup
\* (with the props that effect captured), then the effect again
DepsChange(c, set, clear) ==
    /\ mounted
    /\ <<c, set, clear>> # <<canvas, setSelectedObjects, clearSelectionCallBack>>
    /\ canvas' = c
    /\ setSelectedObjects' = set
    /\ clearSelectionCallBack' = clear
    /\ listeners' = effectSetup(effectCleanup(listeners, canvas), c, set, clear)
    /\ UNCHANGED <<mounted, calls, threw, fired, histVars, asVars>>

Unmount ==
    /\ mounted
    /\ mounted' = FALSE
    /\ listeners' = effectCleanup(listeners, canvas)
    /\ canvas' = Null
    /\ setSelectedObjects' = "set1"
    /\ clearSelectionCallBack' = Undefined
    /\ UNCHANGED <<calls, threw, fired, histVars, asVars>>

\* fabric fires a selection event on a canvas
Fire(c, name, e) ==
    LET r == Dispatch(listeners[c][name], e)
    IN  /\ calls' = r.calls
        /\ threw' = r.threw
        /\ fired' = [name |-> name, canvas |-> c, e |-> e,
                     active |-> mounted /\ canvas = c,
                     set |-> setSelectedObjects, clear |-> clearSelectionCallBack]
        /\ UNCHANGED <<mounted, canvas, setSelectedObjects, clearSelectionCallBack,
                       listeners, histVars, asVars>>

InitEvents ==
    /\ mounted = FALSE
    /\ canvas = Null
    /\ setSelectedObjects = "set1"
    /\ clearSelectionCallBack = Undefined
    /\ listeners = NoListeners
    /\ calls = << >>
    /\ threw = FALSE
    /\ fired = NotFired

NextEvents ==
    \/ \E c \in Canvases \cup {Null}, set \in Setters, clear \in Callbacks \cup {Undefined} :
           Mount(c, set, clear)
    \/ \E c \in Canvases \cup {Null}, set \in Setters, clear \in Callbacks \cup {Undefined} :
           DepsChange(c, set, clear)
    \/ Unmount
    \/ \E c \in Canvases, name \in Events, e \in Payloads : Fire(c, name, e)

\* =============================================================== useAutosave
ProjectIds == {"p1", "p2"}
ProjectData == {"d1", "d2"}

Timer(p, d) == [projectId |-> p, data |-> d, remaining |-> DebounceMs, own |-> TRUE]

RECURSIVE Disown(_)
Disown(ts) ==
    IF ts = << >> THEN << >>
    ELSE <<[Head(ts) EXCEPT !.own = FALSE]>> \o Disown(Tail(ts))

RECURSIVE Advance(_, _)
Advance(ts, ms) ==
    IF ts = << >> THEN << >>
    ELSE <<[Head(ts) EXCEPT !.remaining = Max(0, @ - ms)]>> \o Advance(Tail(ts), ms)

Remove(ts, i) == SubSeq(ts, 1, i - 1) \o SubSeq(ts, i + 1, Len(ts))

\* the effect body: a new debounced function over (projectId, data), called once;
\* `saveDebounced` now names it, timers of earlier ones keep running on their own
saveDebounced(ts, p, d) == Append(Disown(ts), Timer(p, d))

cancelNothing(ts) == ts

\* saveDebounced.cancel(): clears the timer of the effect's own debounced function
cancel(ts) == SelectSeq(ts, LAMBDA t : ~t.own)

NotSaved == [called |-> FALSE, projectId |-> "p1", data |-> "d1",
             curProjectId |-> "p1", curData |-> "d1", heldFor |-> 0,
             mounted |-> FALSE, logged |-> FALSE]

AutosaveMount(p, d) ==
    /\ ~asMounted
    /\ asMounted' = TRUE
    /\ projectId' = p
    /\ data' = d
    /\ elapsed' = 0
    /\ timers' = saveDebounced(timers, p, d)
    /\ UNCHANGED <<saved, histVars, evVars>>

\* a render with another projectId or data: cleanup of the previous effect, then
\* the effect again
AutosaveChange(p, d) ==
    /\ asMounted
    /\ <<p, d>> # <<projectId, data>>
    /\ projectId' = p
    /\ data' = d
    /\ elapsed' = 0
    /\ timers' = saveDebounced(cancel(timers), p, d)
    /\ UNCHANGED <<asMounted, saved, histVars, evVars>>

AutosaveUnmount ==
    /\ asMounted
    /\ asMounted' = FALSE
    /\ timers' = cancel(timers)
    /\ projectId' = "p1"
    /\ data' = "d1"
    /\ elapsed' = 0
    /\ UNCHANGED <<saved, histVars, evVars>>

\* TickMs of time pass; a timer that is due runs before more time passes
Tick ==
    /\ \A i \in 1..Len(timers) : timers[i].remaining > 0
    /\ timers # << >> \/ (asMounted /\ elapsed < DebounceMs)
    /\ timers' = Advance(timers, TickMs)
    /\ elapsed' = IF asMounted THEN Min(DebounceMs, elapsed + TickMs) ELSE 0
    /\ UNCHANGED <<asMounted, projectId, data, saved, histVars, evVars>>

\* a debounce timer expires: the debounced body calls saveProject with the values
\* its closure captured; a rejected save is caught and logged
TimerFires(i, ok) ==
    /\ timers[i].remaining = 0
    /\ timers' = Remove(timers, i)
    /\ saved' = [called |-> TRUE,
                 projectId |-> timers[i].projectId, data |-> timers[i].data,
                 curProjectId |-> projectId, curData |-> data,
                 heldFor |-> elapsed, mounted |-> asMounted, logged |-> ~ok]
    /\ UNCHANGED <<asMounted, projectId, data, elapsed, histVars, evVars>>

InitAutosave ==
    /\ asMounted = FALSE
    /\ projectId = "p1"
    /\ data = "d1"
    /\ timers = << >>
    /\ elapsed = 0
    /\ saved = NotSaved

NextAutosave ==
    \/ \E p \in ProjectIds, d \in ProjectData : AutosaveMount(p, d)
    \/ \E p \in ProjectIds, d \in ProjectData : AutosaveChange(p, d)
    \/ AutosaveUnmount
    \/ Tick
    \/ \E i \in 1..Len(timers), ok \in BOOLEAN : TimerFires(i, ok)

\* ============================================================ specifications
Init == InitHistory /\ InitEvents /\ InitAutosave

Next == NextHistory \/ NextEvents \/ NextAutosave

Spec == Init /\ [][Next]_vars

SpecHistory == Init /\ [][NextHistory]_vars

SpecEvents == Init /\ [][NextEvents]_vars

SpecAutosave == Init /\ [][NextAutosave]_vars

\* ==================================================================== claims

\* C1: whenever undo is called in a render whose currentIndex is > 0, it returns
\* history[currentIndex - 1], the index it sets is currentIndex - 1, and it
\* leaves the history array (rendered and queued) as it was.
C1_UndoRestoresPrevious ==
    [][(lastOp' = "undo" /\ ~fresh' /\ currentIndex > 0) =>
          /\ ret' = history[currentIndex]
          /\ ret' \in CanvasState
          /\ nextIndex' = currentIndex - 1
          /\ nextHistory' = nextHistory
          /\ history' = history]_vars

C1_Witness ==
    /\ lastOp = "undo" /\ ~fresh
    /\ currentIndex > 0
    /\ ret = history[currentIndex]
    /\ nextIndex = currentIndex - 1

\* C3: no entry is ever dropped for size. After n pushState calls on the empty
\* history (each call in its own render) the history holds the n states in
\* order; the j-th of the following undo calls returns the (n - j)-th pushed
\* state, down to the first; the j-th of the redo calls after n - 1 undos
\* returns the (j + 1)-th pushed state, up to the last.
C3_UnlimitedUndoRedo ==
    /\ phase = "push" =>
          /\ nextHistory = pushed
          /\ nextIndex = Len(pushed) - 1
    /\ phase = "undo" =>
          /\ nextHistory = pushed
          /\ ret = pushed[Len(pushed) - k]
          /\ nextIndex = Len(pushed) - k - 1
    /\ phase = "redo" =>
          /\ nextHistory = pushed
          /\ ret = pushed[k + 1]
          /\ nextIndex = k

C3_Witness ==
    /\ phase = "redo"
    /\ Len(pushed) = MaxHistory
    /\ k = Len(pushed) - 1
    /\ pushed[1] # pushed[2]
    /\ fresh

PushStep ==
    (lastOp' = "pushState" /\ ~fresh') =>
        /\ \E state \in CanvasState :
              nextHistory' = Append(Slice0(history, currentIndex + 1), state)
        /\ nextIndex' = Len(nextHistory') - 1

\* C7: pushState(s) called with current index i leaves the former entries
\* 0..i followed by s, with currentIndex the last index, and the redo call that
\* follows it immediately changes nothing and returns no state.
C7_PushDiscardsRedoBranch ==
    [][/\ PushStep
       /\ (lastOp = "pushState" /\ lastOp' = "redo") =>
             /\ ret' = Undefined
             /\ nextIndex' = nextIndex
             /\ nextHistory' = nextHistory]_vars

\* C7, restricted: the same, for a redo called in a later render than pushState.
C7_RedoInLaterRender ==
    [][/\ PushStep
       /\ (lastOp = "pushState" /\ fresh /\ lastOp' = "redo") =>
             /\ ret' = Undefined
             /\ nextIndex' = nextIndex
             /\ nextHistory' = nextHistory]_vars

IndexInRange(h, i) ==
    /\ -1 <= i
    /\ i <= Len(h) - 1
    /\ (i = -1) <=> (h = << >>)

\* C8: currentIndex stays within -1 .. length(history) - 1 and is -1 exactly
\* when the history is empty, in every render and for the queued values; undo
\* at currentIndex <= 0 and redo at the last index change neither history nor
\* currentIndex and return no state.
C8_IndexInRange ==
    /\ [](IndexInRange(history, currentIndex) /\ IndexInRange(nextHistory, nextIndex))
    /\ [][/\ (lastOp' = "undo" /\ ~fresh' /\ currentIndex <= 0) =>
                (ret' = Undefined /\ nextIndex' = nextIndex /\ nextHistory' = nextHistory)
          /\ (lastOp' = "redo" /\ ~fresh' /\ currentIndex = Len(history) - 1) =>
                (ret' = Undefined /\ nextIndex' = nextIndex /\ nextHistory' = nextHistory)]_vars

C8_Witness ==
    /\ lastOp = "redo" /\ ~fresh
    /\ currentIndex = Len(history) - 1
    /\ currentIndex >= 1
    /\ ret = Undefined
    /\ nextIndex = currentIndex

\* the listeners the hook's effect registers for the props (set, clear)
HookListeners(set, clear) ==
    [name \in Events |->
        <<Handler(IF name = "selection:cleared" THEN "cleared" ELSE "selected", set, clear)>>]

SetterCalls == SelectSeq(calls, LAMBDA c : c.fn \in Setters)

\* C2: while mounted with a non-null canvas the hook has exactly one handler per
\* selection event on that canvas, the one of the current props, and none on
\* any other canvas; unmounted or with a null canvas it has none anywhere. A
\* fired event therefore calls the current setSelectedObjects exactly once and
\* no other setter, and calls nothing when the hook is not on that canvas.
C2_ListenersFollowEffect ==
    /\ \A c \in Canvases :
          listeners[c] = IF mounted /\ canvas = c
                         THEN HookListeners(setSelectedObjects, clearSelectionCallBack)
                         ELSE NoListeners[c]
    /\ fired.name # "none" =>
          IF fired.active
          THEN /\ Len(SetterCalls) = 1
               /\ SetterCalls[1].fn = fired.set
               /\ \A i \in 1..Len(calls) : calls[i].fn \in {fired.set, fired.clear}
          ELSE calls = << >>

C2_Witness ==
    /\ fired.active /\ fired.canvas = "c1" /\ fired.set = "set1"
    /\ Len(calls) >= 1
    /\ mounted /\ canvas = "c2" /\ setSelectedObjects = "set2"

\* C5: a selection:created or selection:updated event on the hook's canvas calls
\* setSelectedObjects once, with the event's selected list, or with the empty
\* list when the event has none, and does not call clearSelectionCallBack.
C5_SelectionMirrored ==
    (fired.active /\ fired.name \in {"selection:created", "selection:updated"}) =>
        calls = <<Call(fired.set,
                       <<IF fired.e.selected.type = "array"
                         THEN fired.e.selected ELSE Arr(<< >>)>>)>>

C5_Witness ==
    /\ fired.active
    /\ fired.name = "selection:updated"
    /\ fired.e.selected = Undef
    /\ fired.clear = "cb1"
    /\ Len(calls) = 1

\* C6: a selection:cleared event on the hook's canvas calls setSelectedObjects
\* with the empty list first and then clearSelectionCallBack once when one was
\* supplied; without one it only empties the selection, and nothing throws.
C6_ClearedOrder ==
    (fired.active /\ fired.name = "selection:cleared") =>
        /\ ~threw
        /\ calls = IF fired.clear = Undefined
                   THEN <<Call(fired.set, <<Arr(<< >>)>>)>>
                   ELSE <<Call(fired.set, <<Arr(<< >>)>>), Call(fired.clear, << >>)>>

C6_Witness ==
    /\ fired.active
    /\ fired.name = "selection:cleared"
    /\ fired.clear = Undefined
    /\ Len(calls) = 1
    /\ ~threw

\* C4: at most one debounced save is pending, it is for the current
\* (projectId, data) and none is pending once unmounted; saveProject is only
\* called while mounted, with the current pair, after that pair has been
\* current for the whole debounce delay.
C4_AutosaveDebounced ==
    /\ Len(timers) <= 1
    /\ \A i \in 1..Len(timers) :
          asMounted /\ timers[i].projectId = projectId /\ timers[i].data = data
    /\ saved.called =>
          /\ saved.mounted
          /\ saved.projectId = saved.curProjectId
          /\ saved.data = saved.curData
          /\ saved.heldFor >= DebounceMs

C4_Witness ==
    /\ saved.called /\ saved.data = "d1"
    /\ asMounted /\ data = "d2"
    /\ Len(timers) = 1 /\ timers[1].remaining < DebounceMs

====
